---- MODULE Spec2Model ----
(***************************************************************************)
(* Model of matgl/trainer/megnet.py: the StreamingJSONWriter (a JSON array *)
(* file kept closed after every append) and the MEGNetTrainer.train epoch  *)
(* loop (checkpoint on improvement, best-model overwrite, JSON log).       *)
(*                                                                         *)
(* Files are sequences of one-character strings.  Python objects are       *)
(* tagged tuples: <<"int", n>>, <<"float", n, fracdigits>>, <<"str", cs>>, *)
(* <<"list", xs>>, <<"dict", items>> with items a sequence of <<key, val>>.*)
(***************************************************************************)
EXTENDS Integers, Sequences, FiniteSets, TLC

\* ------------------------------------------------------------------------
\* Bounds of the model
\* ------------------------------------------------------------------------
MaxEpochs == 3
MaxDumps == 3
MaxCycles == 2
MaxBatches == 2

\* ------------------------------------------------------------------------
\* Python values and json.dumps
\* ------------------------------------------------------------------------
PyInt(n) == <<"int", n>>
PyFloat(n) == <<"float", n, <<0>>>>
PyStr(cs) == <<"str", cs>>
PyList(xs) == <<"list", xs>>
PyDict(items) == <<"dict", items>>

DigitChars == <<"0", "1", "2", "3", "4", "5", "6", "7", "8", "9">>

IsDigit(c) == \E d \in 1..10 : DigitChars[d] = c

DigitVal(c) == (CHOOSE d \in 1..10 : DigitChars[d] = c) - 1

RECURSIVE IntRepr(_)
IntRepr(n) ==
    IF n < 10 THEN <<DigitChars[n + 1]>>
    ELSE IntRepr(n \div 10) \o <<DigitChars[(n % 10) + 1]>>

RECURSIVE DigitsRepr(_)
DigitsRepr(ds) ==
    IF ds = <<>> THEN <<>>
    ELSE <<DigitChars[Head(ds) + 1]>> \o DigitsRepr(Tail(ds))

\* float.__repr__ of a float with integer part n and fraction digits ds
FloatRepr(n, ds) == IntRepr(n) \o <<".">> \o DigitsRepr(ds)

RECURSIVE JSONDumps(_)
RECURSIVE DumpsList(_)
RECURSIVE DumpsItems(_)
\* json.dumps(obj) with the default separators (", " and ": ")
JSONDumps(obj) ==
    CASE obj[1] = "int" -> IntRepr(obj[2])
      [] obj[1] = "float" -> FloatRepr(obj[2], obj[3])
      [] obj[1] = "str" -> <<"\"">> \o obj[2] \o <<"\"">>
      [] obj[1] = "list" -> <<"[">> \o DumpsList(obj[2]) \o <<"]">>
      [] obj[1] = "dict" -> <<"{">> \o DumpsItems(obj[2]) \o <<"}">>

DumpsList(xs) ==
    IF xs = <<>> THEN <<>>
    ELSE IF Len(xs) = 1 THEN JSONDumps(xs[1])
    ELSE JSONDumps(xs[1]) \o <<",", " ">> \o DumpsList(Tail(xs))

DumpsItems(items) ==
    IF items = <<>> THEN <<>>
    ELSE LET kv == <<"\"">> \o items[1][1] \o <<"\"", ":", " ">> \o JSONDumps(items[1][2])
         IN IF Len(items) = 1 THEN kv
            ELSE kv \o <<",", " ">> \o DumpsItems(Tail(items))

\* ------------------------------------------------------------------------
\* json.loads: a recursive-descent parser of the JSON text in s
\* ------------------------------------------------------------------------
Invalid == <<"invalid">>

Fail == [ok |-> FALSE, val |-> Invalid, pos |-> 0]

Ok(v, p) == [ok |-> TRUE, val |-> v, pos |-> p]

At(s, i) == IF i >= 1 /\ i <= Len(s) THEN s[i] ELSE "EOF"

IsWs(c) == c \in {" ", "\n", "\t", "\r"}

RECURSIVE SkipWs(_, _)
SkipWs(s, i) == IF IsWs(At(s, i)) THEN SkipWs(s, i + 1) ELSE i

\* the digits of s from i on: [n: their value, ds: the digits, pos: the index after them]
RECURSIVE ScanDigits(_, _, _, _)
ScanDigits(s, i, n, ds) ==
    IF IsDigit(At(s, i))
    THEN ScanDigits(s, i + 1, 10 * n + DigitVal(s[i]), Append(ds, DigitVal(s[i])))
    ELSE [n |-> n, ds |-> ds, pos |-> i]

ParseNumber(s, i) ==
    LET int == ScanDigits(s, i, 0, <<>>)
    IN IF int.ds = <<>> \/ (Len(int.ds) > 1 /\ int.ds[1] = 0) THEN Fail
       ELSE IF At(s, int.pos) = "."
            THEN LET frac == ScanDigits(s, int.pos + 1, 0, <<>>)
                 IN IF frac.ds = <<>> THEN Fail
                    ELSE Ok(<<"float", int.n, frac.ds>>, frac.pos)
            ELSE Ok(<<"int", int.n>>, int.pos)

\* the characters of a string literal whose opening quote is at i - 1
RECURSIVE ScanString(_, _, _)
ScanString(s, i, acc) ==
    LET c == At(s, i)
    IN IF c = "\"" THEN Ok(<<"str", acc>>, i + 1)
       ELSE IF c \in {"EOF", "\\", "\n", "\t", "\r"} THEN Fail
       ELSE ScanString(s, i + 1, Append(acc, c))

RECURSIVE ParseValue(_, _)
RECURSIVE ParseElements(_, _, _)
RECURSIVE ParseMembers(_, _, _)
ParseValue(s, i) ==
    LET c == At(s, i)
    IN IF c = "["
       THEN LET j == SkipWs(s, i + 1)
            IN IF At(s, j) = "]" THEN Ok(<<"list", <<>>>>, j + 1)
               ELSE ParseElements(s, j, <<>>)
       ELSE IF c = "{"
       THEN LET j == SkipWs(s, i + 1)
            IN IF At(s, j) = "}" THEN Ok(<<"dict", <<>>>>, j + 1)
               ELSE ParseMembers(s, j, <<>>)
       ELSE IF c = "\"" THEN ScanString(s, i + 1, <<>>)
       ELSE IF IsDigit(c) THEN ParseNumber(s, i)
       ELSE Fail

\* the elements of an array from i on (i is at the first character of an element)
ParseElements(s, i, acc) ==
    LET r == ParseValue(s, i)
    IN IF ~r.ok THEN Fail
       ELSE LET j == SkipWs(s, r.pos)
            IN IF At(s, j) = "]" THEN Ok(<<"list", Append(acc, r.val)>>, j + 1)
               ELSE IF At(s, j) = ","
                    THEN ParseElements(s, SkipWs(s, j + 1), Append(acc, r.val))
                    ELSE Fail

\* the members of an object from i on (i is at the opening quote of a key)
ParseMembers(s, i, acc) ==
    IF At(s, i) # "\"" THEN Fail
    ELSE LET k == ScanString(s, i + 1, <<>>)
         IN IF ~k.ok THEN Fail
            ELSE LET c == SkipWs(s, k.pos)
                 IN IF At(s, c) # ":" THEN Fail
                    ELSE LET r == ParseValue(s, SkipWs(s, c + 1))
                         IN IF ~r.ok THEN Fail
                            ELSE LET j == SkipWs(s, r.pos)
                                     item == <<k.val[2], r.val>>
                                 IN IF At(s, j) = "}"
                                    THEN Ok(<<"dict", Append(acc, item)>>, j + 1)
                                    ELSE IF At(s, j) = ","
                                         THEN ParseMembers(s, SkipWs(s, j + 1), Append(acc, item))
                                         ELSE Fail

\* json.loads(s): the value of the whole text, or Invalid (JSONDecodeError)
JSONLoads(s) ==
    LET r == ParseValue(s, SkipWs(s, 1))
    IN IF r.ok /\ SkipWs(s, r.pos) > Len(s) THEN r.val ELSE Invalid

IsJSONArray(s) == JSONLoads(s)[1] = "list"

\* ------------------------------------------------------------------------
\* State
\* ------------------------------------------------------------------------
VARIABLES
    logfile,        \* the file at the log path on disk: NoFile or its characters
    jsonlog,        \* the StreamingJSONWriter: file handle state, delimeter, cursor, buffer
    BestModel,      \* the directory <cwd>/BestModel
    CheckPoints,    \* the directory <cwd>/CheckPoints
    pc,             \* position of MEGNetTrainer.train
    num_epochs,     \* argument of train
    train_len,      \* len(train_loader)
    val_len,        \* len(val_loader)
    epoch,          \* next index of range(num_epochs) = number of completed epochs
    model,          \* model parameters: number of optimizer steps applied to them
    optimizer,      \* optimizer state: number of optimizer.step() calls
    scheduler,      \* scheduler state: number of scheduler.step() calls
    best_val_loss,
    train_loss,
    val_loss,
    train_time,
    val_time,
    log0,           \* history: the log file when the run started
    dirs0,          \* history: the two directories when the run started
    appended,       \* history: the objects passed to dump, in call order
    cycles,         \* history: number of StreamingJSONWriter constructions
    val_hist,       \* history: the validation loss of every completed validation
    step            \* one call of train_one_step / validate_one_step, batch by batch

vars == <<logfile, jsonlog, BestModel, CheckPoints, pc, num_epochs, train_len, val_len,
          epoch, model, optimizer, scheduler, best_val_loss, train_loss, val_loss,
          train_time, val_time, log0, dirs0, appended, cycles, val_hist, step>>

fsVars == <<BestModel, CheckPoints, dirs0>>

trainVars == <<pc, num_epochs, train_len, val_len, epoch, model, optimizer, scheduler,
               best_val_loss, train_loss, val_loss, train_time, val_time, val_hist, step>>

Max(a, b) == IF a > b THEN a ELSE b

\* ------------------------------------------------------------------------
\* Exact arithmetic for losses: a rational is <<numerator, denominator>>, reduced,
\* with a positive denominator
\* ------------------------------------------------------------------------
Abs(n) == IF n < 0 THEN -n ELSE n

RECURSIVE GCD(_, _)
GCD(a, b) == IF b = 0 THEN a ELSE GCD(b, a % b)

Rat(n, d) ==
    LET g == GCD(Abs(n), Abs(d))
        sign == IF d < 0 THEN -1 ELSE 1
    IN <<(sign * n) \div g, (sign * d) \div g>>

FromInt(n) == <<n, 1>>

RAdd(a, b) == Rat(a[1] * b[2] + b[1] * a[2], a[2] * b[2])

RSub(a, b) == Rat(a[1] * b[2] - b[1] * a[2], a[2] * b[2])

RMul(a, b) == Rat(a[1] * b[1], a[2] * b[2])

\* a / b for b # 0
RDiv(a, b) == Rat(a[1] * b[2], a[2] * b[1])

RAbs(a) == <<Abs(a[1]), a[2]>>

RECURSIVE RSum(_)
RSum(xs) == IF xs = <<>> THEN FromInt(0) ELSE RAdd(xs[1], RSum(Tail(xs)))

\* ------------------------------------------------------------------------
\* train_one_step and validate_one_step, batch by batch
\* ------------------------------------------------------------------------
\* labels of the batches (one example per batch), predictions of the model,
\* dataset statistics and the loss functions handed in by the caller
Labels == {1, 3}

Preds == {0, 1}

Means == {0, 1}

Stds == {1, 2}

LossFns == {"L1", "MSE"}

\* dataloaders: every sequence of at most MaxBatches batches
Dataloaders == UNION {[1..n -> Labels] : n \in 0..MaxBatches}

\* loss_function(input, target) for L1Loss and MSELoss on one example
LossFunction(kind, input, target) ==
    LET d == RSub(input, target)
    IN IF kind = "L1" THEN RAbs(d) ELSE RMul(d, d)

\* faulty variant of TrainLossArgs: the label is not normalised
TrainLossArgs_RawLabel(pred, label, mean, std) == <<FromInt(pred), FromInt(label)>>

\* line 45: loss_function(pred, (labels - data_mean) / data_std)
TrainLossArgs(pred, label, mean, std) ==
    <<FromInt(pred), RDiv(RSub(FromInt(label), FromInt(mean)), FromInt(std))>>

\* line 80: loss_function(data_mean + pred * data_std, labels)
ValLossArgs(pred, label, mean, std) ==
    <<RAdd(FromInt(mean), RMul(FromInt(pred), FromInt(std))), FromInt(label)>>

TrainLoss(kind, pred, label, mean, std) ==
    LET a == TrainLossArgs(pred, label, mean, std) IN LossFunction(kind, a[1], a[2])

ValLoss(kind, pred, label, mean, std) ==
    LET a == ValLossArgs(pred, label, mean, std) IN LossFunction(kind, a[1], a[2])

\* faulty variant of Accumulated: the running sum is overwritten by the last loss
Accumulated_Overwrite(avg_loss, loss) == loss

\* avg_loss += loss
Accumulated(avg_loss, loss) == RAdd(avg_loss, loss)

\* faulty variant of StepFails: an empty dataloader is guarded and a loss is returned
StepFails_Guarded(len) == FALSE

\* avg_loss.cpu().item() / len(dataloader) raises ZeroDivisionError
StepFails(len) == len = 0

\* faulty variant of BatchEntry: the gradients are never cleared
BatchEntry_NoZeroGrad(fn) == "forward"

\* the first statement of the loop body: optimizer.zero_grad() in train_one_step,
\* the forward pass in validate_one_step
BatchEntry(fn) == IF fn = "train" THEN "zero_grad" ELSE "forward"

\* the for loop over the dataloader after i batches: the next batch, or the division
BatchLoop(fn, i, loader) == IF i < Len(loader) THEN BatchEntry(fn) ELSE "divide"

StepIdle ==
    [fn |-> "none", loader |-> <<>>, mean |-> 0, std |-> 1, lossfn |-> "L1",
     pc |-> "idle", i |-> 0, training |-> FALSE, params |-> 0, pred |-> 0,
     args |-> <<>>, loss |-> FromInt(0), avg_loss |-> FromInt(0), result |-> <<>>,
     calls |-> <<>>, seen |-> <<>>, losses |-> <<>>]

others == <<logfile, jsonlog, BestModel, CheckPoints, pc, num_epochs, train_len, val_len,
            epoch, model, optimizer, scheduler, best_val_loss, train_loss, val_loss,
            train_time, val_time, log0, dirs0, appended, cycles, val_hist>>

\* model.train(); avg_loss = torch.zeros(1)   (validate_one_step: only the latter)
StepEnter ==
    /\ step.pc = "start"
    /\ step' = [step EXCEPT !.training = (step.fn = "train") \/ @,
                            !.avg_loss = FromInt(0),
                            !.pc = BatchLoop(step.fn, 0, step.loader)]
    /\ UNCHANGED others

\* optimizer.zero_grad()
ZeroGrad ==
    /\ step.pc = "zero_grad"
    /\ step' = [step EXCEPT !.calls = Append(@, "zero_grad"), !.pc = "forward"]
    /\ UNCHANGED others

\* pred = torch.squeeze(model(g, edge_feat.float(), node_feat.long(), attrs))
Forward ==
    /\ step.pc = "forward"
    /\ \E pred \in Preds :
         step' = [step EXCEPT !.pred = pred,
                              !.seen = Append(@, step.loader[step.i + 1]),
                              !.calls = Append(@, "forward"),
                              !.pc = "loss"]
    /\ UNCHANGED others

\* loss = loss_function(...), with the arguments of line 45 or of line 80
ComputeLoss ==
    /\ step.pc = "loss"
    /\ LET label == step.loader[step.i + 1]
           a == IF step.fn = "train"
                THEN TrainLossArgs(step.pred, label, step.mean, step.std)
                ELSE ValLossArgs(step.pred, label, step.mean, step.std)
           l == LossFunction(step.lossfn, a[1], a[2])
       IN step' = [step EXCEPT !.args = a,
                               !.loss = l,
                               !.losses = Append(@, l),
                               !.calls = Append(@, "loss"),
                               !.pc = IF step.fn = "train" THEN "backward" ELSE "accumulate"]
    /\ UNCHANGED others

\* loss.backward()
Backward ==
    /\ step.pc = "backward"
    /\ step' = [step EXCEPT !.calls = Append(@, "backward"), !.pc = "step"]
    /\ UNCHANGED others

\* optimizer.step(): the model parameters are changed
OptimizerStep ==
    /\ step.pc = "step"
    /\ step' = [step EXCEPT !.params = @ + 1,
                            !.calls = Append(@, "step"),
                            !.pc = "accumulate"]
    /\ UNCHANGED others

\* avg_loss += loss, then the next batch
Accumulate ==
    /\ step.pc = "accumulate"
    /\ step' = [step EXCEPT !.avg_loss = Accumulated(@, step.loss),
                            !.i = @ + 1,
                            !.pc = BatchLoop(step.fn, step.i + 1, step.loader)]
    /\ UNCHANGED others

\* avg_loss = avg_loss.cpu().item() / len(dataloader); return avg_loss, epoch_time
Divide ==
    /\ step.pc = "divide"
    /\ IF StepFails(Len(step.loader))
       THEN step' = [step EXCEPT !.pc = "raised"]
       ELSE step' = [step EXCEPT !.result = RDiv(step.avg_loss, FromInt(Len(step.loader))),
                                 !.pc = "returned"]
    /\ UNCHANGED others

\* ------------------------------------------------------------------------
\* Text files: open(), seek(), write(), flush(), close()
\* ------------------------------------------------------------------------
NoFile == <<"ENOENT">>

Exists(disk) == disk # NoFile

\* the file after text is written at offset p (no truncation)
WriteAt(disk, p, text) ==
    SubSeq(disk, 1, p) \o text \o SubSeq(disk, p + Len(text) + 1, Len(disk))

\* a handle with the disk content it writes to
FileFlush(st) ==
    [w |-> [st.w EXCEPT !.pos = @ + Len(st.w.buffer), !.buffer = <<>>],
     disk |-> WriteAt(st.disk, st.w.pos, st.w.buffer)]

\* file.seek(0, os.SEEK_END): pending output is written first; the cursor is the length
FileSeekEnd(st) ==
    LET f == FileFlush(st) IN [f EXCEPT !.w.pos = Len(f.disk)]

FileSeek(st, p) ==
    LET f == FileFlush(st) IN [f EXCEPT !.w.pos = p]

FileWrite(st, text) == [st EXCEPT !.w.buffer = @ \o text]

FileClose(st) ==
    LET f == FileFlush(st) IN [f EXCEPT !.w.file = "closed"]

\* ------------------------------------------------------------------------
\* StreamingJSONWriter
\* ------------------------------------------------------------------------
NoWriter == [file |-> "none", delimeter |-> "", pos |-> 0, buffer |-> <<>>]

close_str == <<"\n", "]", "\n">>

indent == <<"\n", " ", " ", " ", " ">>

\* faulty variant of InitDelimeter: every session starts a new array
InitDelimeter_Bracket(exists) == "["

\* self.delimeter = "," for an existing file, "[" for a new one
InitDelimeter(exists) == IF exists THEN "," ELSE "["

\* __init__: open(filename, "r+") when the path exists, else open(filename, "w")
StreamingJSONWriter(disk) ==
    [w |-> [file |-> "open", delimeter |-> InitDelimeter(Exists(disk)),
            pos |-> 0, buffer |-> <<>>],
     disk |-> IF Exists(disk) THEN disk ELSE <<>>]

\* faulty variant of SeekTarget: the cursor stays at the end, the closing bracket is kept
SeekTarget_AtEnd(end) == end

\* faulty variant of SeekTarget: every dump rewrites the file from its start
SeekTarget_Start(end) == 0

\* max(self.file.seek(0, os.SEEK_END) - len(close_str), 0)
SeekTarget(end) == Max(end - Len(close_str), 0)

\* f"{self.delimeter}\n    {data}{close_str}"
DumpText(delimeter, data) == <<delimeter>> \o indent \o data \o close_str

DumpFlush(st) == FileFlush(st)

dump(st, obj) ==
    LET data == JSONDumps(obj)
        atEnd == FileSeekEnd(st)
        sought == FileSeek(atEnd, SeekTarget(atEnd.w.pos))
        written == FileWrite(sought, DumpText(st.w.delimeter, data))
        flushed == DumpFlush(written)
    IN [flushed EXCEPT !.w.delimeter = ","]

close(st) == FileClose(st)

\* ------------------------------------------------------------------------
\* The writer used on its own: open/close cycles on one path
\* ------------------------------------------------------------------------
\* objects handed to dump
Objs == {PyInt(7),
         PyList(<<PyInt(1), PyInt(20)>>),
         PyDict(<< <<<<"k">>, PyFloat(3)>> >>)}

\* a valid one-element log as a previous session leaves it: "[\n    7\n]\n"
ValidLog == DumpText("[", JSONDumps(PyInt(7)))

\* files found at the log path when a session starts
PriorLogs ==
    {NoFile,
     <<>>,
     <<"[">> \o close_str,
     ValidLog,
     <<"[", "7", "]">>,
     <<"[", "\n", "7", " ", "]", "\n">>,
     <<"[", "1", "2", "]", "\n">>,
     <<"[", "7", "]", "\n", "\n", "\n">>,
     <<"[", "]", "\n", "\n">>}

NoDir == [exists |-> FALSE, files |-> {}]

EmptyDir == [exists |-> TRUE, files |-> {}]

TrainIdle ==
    /\ pc = "Initializing"
    /\ num_epochs = 0 /\ train_len = 0 /\ val_len = 0
    /\ epoch = 0 /\ model = 0 /\ optimizer = 0 /\ scheduler = 0
    /\ best_val_loss = 0 /\ train_loss = 0 /\ val_loss = 0
    /\ train_time = 0 /\ val_time = 0
    /\ val_hist = <<>>
    /\ step = StepIdle

InitWriter ==
    /\ logfile \in PriorLogs
    /\ log0 = logfile
    /\ jsonlog = NoWriter
    /\ appended = <<>>
    /\ cycles = 0
    /\ BestModel = NoDir /\ CheckPoints = NoDir
    /\ dirs0 = <<NoDir, NoDir>>
    /\ TrainIdle

WriterOpen ==
    /\ jsonlog.file \in {"none", "closed"}
    /\ cycles < MaxCycles
    /\ LET st == StreamingJSONWriter(logfile)
       IN /\ jsonlog' = st.w
          /\ logfile' = st.disk
    /\ cycles' = cycles + 1
    /\ UNCHANGED <<appended, log0, fsVars, trainVars>>

WriterDump ==
    /\ jsonlog.file = "open"
    /\ Len(appended) < MaxDumps
    /\ \E obj \in Objs :
         LET st == dump([w |-> jsonlog, disk |-> logfile], obj)
         IN /\ jsonlog' = st.w
            /\ logfile' = st.disk
            /\ appended' = Append(appended, obj)
    /\ UNCHANGED <<cycles, log0, fsVars, trainVars>>

WriterClose ==
    /\ jsonlog.file = "open"
    /\ LET st == close([w |-> jsonlog, disk |-> logfile])
       IN /\ jsonlog' = st.w
          /\ logfile' = st.disk
    /\ UNCHANGED <<appended, cycles, log0, fsVars, trainVars>>

NextWriter == WriterOpen \/ WriterDump \/ WriterClose

SpecWriter == InitWriter /\ [][NextWriter]_vars

\* one call of a step function on its own
InitStep ==
    /\ \E fn \in {"train", "validate"}, loader \in Dataloaders, mean \in Means,
          std \in Stds, lossfn \in LossFns :
         step = [StepIdle EXCEPT !.fn = fn, !.loader = loader, !.mean = mean,
                                 !.std = std, !.lossfn = lossfn, !.pc = "start"]
    /\ logfile = NoFile /\ log0 = NoFile
    /\ jsonlog = NoWriter
    /\ appended = <<>>
    /\ cycles = 0
    /\ BestModel = NoDir /\ CheckPoints = NoDir
    /\ dirs0 = <<NoDir, NoDir>>
    /\ pc = "Initializing"
    /\ num_epochs = 0 /\ train_len = 0 /\ val_len = 0
    /\ epoch = 0 /\ model = 0 /\ optimizer = 0 /\ scheduler = 0
    /\ best_val_loss = 0 /\ train_loss = 0 /\ val_loss = 0
    /\ train_time = 0 /\ val_time = 0
    /\ val_hist = <<>>

NextStep ==
    \/ StepEnter
    \/ ZeroGrad
    \/ Forward
    \/ ComputeLoss
    \/ Backward
    \/ OptimizerStep
    \/ Accumulate
    \/ Divide

SpecStep == InitStep /\ [][NextStep]_vars

\* ------------------------------------------------------------------------
\* MEGNetTrainer.train
\* ------------------------------------------------------------------------
\* best_val_loss = 1000.0
Sentinel == 1000

\* validation losses (floats n.0), below and not below the sentinel
ValLosses == {1, 2, 3, Sentinel}

TrainLosses == {1, 2}

\* elapsed seconds (floats n.0) returned by the step functions
Times == {0}

TrainLens == {0, 2}

ValLens == {0, 1}

TrainerPriorLogs == {NoFile, <<>>, ValidLog}

BestModelName == <<"b", "e", "s", "t", "-", "m", "o", "d", "e", "l", ".", "p", "t">>

RECURSIVE Zeros(_)
Zeros(n) == IF n <= 0 THEN <<>> ELSE <<"0">> \o Zeros(n - 1)

\* "%05d" % n
Pad5(n) == Zeros(5 - Len(IntRepr(n))) \o IntRepr(n)

\* "%6.5f" % v for the float v = n.0
Fixed5(n) == IntRepr(n) \o <<".">> \o Zeros(5)

\* "/%05d" % (epoch + 1) + "-%6.5f" % (val_loss) + ".pt"
CheckpointName(e, v) == Pad5(e) \o <<"-">> \o Fixed5(v) \o <<".", "p", "t">>

\* the dict saved as a checkpoint
CheckpointDict ==
    [epoch |-> epoch + 1,
     model |-> model,
     optimizer_state_dict |-> optimizer,
     scheduler_state_dict |-> scheduler,
     loss |-> val_loss]

BestModelDict == [model |-> model]

log_dict ==
    PyDict(<< <<<<"E", "p", "o", "c", "h">>, PyInt(epoch + 1)>>,
              <<<<"t", "r", "a", "i", "n", "_", "l", "o", "s", "s">>, PyFloat(train_loss)>>,
              <<<<"v", "a", "l", "_", "l", "o", "s", "s">>, PyFloat(val_loss)>>,
              <<<<"t", "r", "a", "i", "n", "_", "t", "i", "m", "e">>, PyFloat(train_time)>>,
              <<<<"v", "a", "l", "_", "t", "i", "m", "e">>, PyFloat(val_time)>> >>)

\* torch.save(obj, dir + "/" + name): the file is created or replaced
TorchSave(dir, name, obj) ==
    [dir EXCEPT !.files = {f \in @ : f.name # name} \cup {[name |-> name, data |-> obj]}]

\* a directory left by an earlier run
PriorBestModel ==
    [exists |-> TRUE, files |-> {[name |-> BestModelName, data |-> [model |-> 99]]}]

PriorCheckPoints ==
    [exists |-> TRUE,
     files |-> {[name |-> CheckpointName(9, 1),
                 data |-> [epoch |-> 9, model |-> 99, optimizer_state_dict |-> 99,
                           scheduler_state_dict |-> 9, loss |-> 1]]}]

\* faulty variant of ResetDir: an existing directory is kept as it is (makedirs(exist_ok=True))
ResetDir_ExistOk(d) == IF d.exists THEN d ELSE EmptyDir

\* if os.path.exists(d): shutil.rmtree(d);  os.mkdir(d)

ResetDir(d) == EmptyDir

\* faulty variant of Improved: any change of the validation loss counts
Improved_NotEqual(v, best) == v # best

\* faulty variant of Improved: an equal validation loss counts as an improvement
Improved_OrEqual(v, best) == v <= best

\* val_loss < best_val_loss
Improved(v, best) == v < best

\* faulty variant of LoopHead: the loop is left after an epoch that did not improve
LoopHead_EarlyStop(e) ==
    IF e < num_epochs /\ (e = 0 \/ val_loss <= best_val_loss) THEN "train" ELSE "close"

\* the for loop's next iteration, or the statement after the loop
LoopHead(e) == IF e < num_epochs THEN "train" ELSE "close"

Init ==
    /\ pc = "Initializing"
    /\ num_epochs \in 0..MaxEpochs
    /\ train_len \in TrainLens
    /\ val_len \in ValLens
    /\ epoch = 0 /\ model = 0 /\ optimizer = 0 /\ scheduler = 0
    /\ best_val_loss = 0 /\ train_loss = 0 /\ val_loss = 0
    /\ train_time = 0 /\ val_time = 0
    /\ val_hist = <<>>
    /\ step = StepIdle
    /\ logfile \in TrainerPriorLogs
    /\ log0 = logfile
    /\ jsonlog = NoWriter
    /\ appended = <<>>
    /\ cycles = 0
    /\ BestModel \in {NoDir, PriorBestModel}
    /\ CheckPoints \in {NoDir, PriorCheckPoints}
    /\ dirs0 = <<BestModel, CheckPoints>>

\* lines 149-161: reset both directories, open the log writer, set the sentinel
Initialize ==
    /\ pc = "Initializing"
    /\ BestModel' = ResetDir(BestModel)
    /\ CheckPoints' = ResetDir(CheckPoints)
    /\ LET st == StreamingJSONWriter(logfile)
       IN /\ jsonlog' = st.w
          /\ logfile' = st.disk
    /\ cycles' = cycles + 1
    /\ best_val_loss' = Sentinel
    /\ epoch' = 0
    /\ pc' = LoopHead(0)
    /\ UNCHANGED <<step, num_epochs, train_len, val_len, model, optimizer, scheduler, train_loss,
                   val_loss, train_time, val_time, val_hist, log0, dirs0, appended>>

\* train_one_step: one optimizer step per batch, then the sum divided by len(dataloader)
TrainOneStep ==
    /\ pc = "train"
    /\ IF StepFails(train_len)
       THEN /\ pc' = "Aborted"
            /\ UNCHANGED <<model, optimizer, train_loss, train_time>>
       ELSE /\ \E l \in TrainLosses, t \in Times :
                 /\ train_loss' = l
                 /\ train_time' = t
            /\ model' = model + train_len
            /\ optimizer' = optimizer + train_len
            /\ pc' = "validate"
    /\ UNCHANGED <<step, logfile, jsonlog, BestModel, CheckPoints, num_epochs, train_len, val_len,
                   epoch, scheduler, best_val_loss, val_loss, val_time, log0, dirs0,
                   appended, cycles, val_hist>>

\* validate_one_step: no parameter is changed; the sum divided by len(dataloader)
ValidateOneStep ==
    /\ pc = "validate"
    /\ IF StepFails(val_len)
       THEN /\ pc' = "Aborted"
            /\ UNCHANGED <<val_loss, val_time, val_hist>>
       ELSE /\ \E l \in ValLosses, t \in Times :
                 /\ val_loss' = l
                 /\ val_time' = t
                 /\ val_hist' = Append(val_hist, l)
            /\ pc' = "sched"
    /\ UNCHANGED <<step, logfile, jsonlog, BestModel, CheckPoints, num_epochs, train_len, val_len,
                   epoch, model, optimizer, scheduler, best_val_loss, train_loss, train_time,
                   log0, dirs0, appended, cycles>>

\* faulty variant of SchedulerStep: the scheduler advances only in an improving epoch
SchedulerStep_OnImprovement ==
    /\ pc = "sched"
    /\ scheduler' = IF val_loss < best_val_loss THEN scheduler + 1 ELSE scheduler
    /\ pc' = "check"
    /\ UNCHANGED <<step, logfile, jsonlog, BestModel, CheckPoints, num_epochs, train_len, val_len,
                   epoch, model, optimizer, best_val_loss, train_loss, val_loss, train_time,
                   val_time, log0, dirs0, appended, cycles, val_hist>>

\* self.scheduler.step()
SchedulerStep ==
    /\ pc = "sched"
    /\ scheduler' = scheduler + 1
    /\ pc' = "check"
    /\ UNCHANGED <<step, logfile, jsonlog, BestModel, CheckPoints, num_epochs, train_len, val_len,
                   epoch, model, optimizer, best_val_loss, train_loss, val_loss, train_time,
                   val_time, log0, dirs0, appended, cycles, val_hist>>

\* faulty variant of SaveCheckpoint: the improving epoch is logged without a checkpoint
SaveCheckpoint_Skipped ==
    /\ pc = "check"
    /\ Improved(val_loss, best_val_loss)
    /\ pc' = "dump_log"
    /\ UNCHANGED <<step, logfile, jsonlog, BestModel, CheckPoints, num_epochs, train_len, val_len,
                   epoch, model, optimizer, scheduler, best_val_loss, train_loss, val_loss,
                   train_time, val_time, log0, dirs0, appended, cycles, val_hist>>

\* if val_loss < best_val_loss: torch.save({...}, checkpath + name)
SaveCheckpoint ==
    /\ pc = "check"
    /\ Improved(val_loss, best_val_loss)
    /\ CheckPoints' = TorchSave(CheckPoints, CheckpointName(epoch + 1, val_loss), CheckpointDict)
    /\ pc' = "dump_log"
    /\ UNCHANGED <<step, logfile, jsonlog, BestModel, num_epochs, train_len, val_len, epoch, model,
                   optimizer, scheduler, best_val_loss, train_loss, val_loss, train_time,
                   val_time, log0, dirs0, appended, cycles, val_hist>>

\* the if is false: nothing is written in this epoch
NoImprovement ==
    /\ pc = "check"
    /\ ~Improved(val_loss, best_val_loss)
    /\ epoch' = epoch + 1
    /\ pc' = LoopHead(epoch + 1)
    /\ UNCHANGED <<step, logfile, jsonlog, BestModel, CheckPoints, num_epochs, train_len, val_len,
                   model, optimizer, scheduler, best_val_loss, train_loss, val_loss,
                   train_time, val_time, log0, dirs0, appended, cycles, val_hist>>

\* jsonlog.dump(log_dict); best_val_loss = val_loss
DumpLog ==
    /\ pc = "dump_log"
    /\ LET st == dump([w |-> jsonlog, disk |-> logfile], log_dict)
       IN /\ jsonlog' = st.w
          /\ logfile' = st.disk
    /\ appended' = Append(appended, log_dict)
    /\ best_val_loss' = val_loss
    /\ pc' = "save_best"
    /\ UNCHANGED <<step, BestModel, CheckPoints, num_epochs, train_len, val_len, epoch, model,
                   optimizer, scheduler, train_loss, val_loss, train_time, val_time, log0,
                   dirs0, cycles, val_hist>>

\* torch.save({"model": ...}, outpath + "/best-model.pt")
SaveBestModel ==
    /\ pc = "save_best"
    /\ BestModel' = TorchSave(BestModel, BestModelName, BestModelDict)
    /\ epoch' = epoch + 1
    /\ pc' = LoopHead(epoch + 1)
    /\ UNCHANGED <<step, logfile, jsonlog, CheckPoints, num_epochs, train_len, val_len, model,
                   optimizer, scheduler, best_val_loss, train_loss, val_loss, train_time,
                   val_time, log0, dirs0, appended, cycles, val_hist>>

\* jsonlog.close()
Finish ==
    /\ pc = "close"
    /\ LET st == close([w |-> jsonlog, disk |-> logfile])
       IN /\ jsonlog' = st.w
          /\ logfile' = st.disk
    /\ pc' = "Finished"
    /\ UNCHANGED <<step, BestModel, CheckPoints, num_epochs, train_len, val_len, epoch, model,
                   optimizer, scheduler, best_val_loss, train_loss, val_loss, train_time,
                   val_time, log0, dirs0, appended, cycles, val_hist>>

Next ==
    \/ Initialize
    \/ TrainOneStep
    \/ ValidateOneStep
    \/ SchedulerStep
    \/ SaveCheckpoint
    \/ NoImprovement
    \/ DumpLog
    \/ SaveBestModel
    \/ Finish

Spec == Init /\ [][Next]_vars

\* train is one sequential call: a step that can be taken is taken
FairSpec == Spec /\ WF_vars(Next)

\* the state of the trainer's state machine
TrainerState ==
    CASE pc = "Initializing" -> "Initializing"
      [] pc \in {"train", "validate"} -> "EpochRunning"
      [] pc \in {"sched", "check", "dump_log", "save_best"} -> "EpochEvaluated"
      [] pc \in {"close", "Finished"} -> "Finished"
      [] pc = "Aborted" -> "Aborted"

\* ------------------------------------------------------------------------
\* Claims about the StreamingJSONWriter (specification SpecWriter)
\* ------------------------------------------------------------------------
RECURSIVE JoinRecords(_)
\* the serialized records, each on its own indented line, separated by ","
JoinRecords(objs) ==
    IF objs = <<>> THEN <<>>
    ELSE IF Len(objs) = 1 THEN indent \o JSONDumps(objs[1])
    ELSE indent \o JSONDumps(objs[1]) \o <<",">> \o JoinRecords(Tail(objs))

FirstSessionOnNewPath == log0 = NoFile /\ cycles = 1

\* C1: a writer opened on a path that did not exist: after each of k >= 1 dumps,
\* and after close, the file is "[" + the records separated by "," + "\n]\n" and
\* parses as the JSON array of exactly the dumped records in call order.
C1_NewPathValidArray ==
    (FirstSessionOnNewPath /\ appended # <<>>) =>
        /\ logfile = <<"[">> \o JoinRecords(appended) \o close_str
        /\ JSONLoads(logfile) = PyList(appended)

C1_Witness ==
    /\ FirstSessionOnNewPath
    /\ Len(appended) >= 2
    /\ jsonlog.file = "closed"
    /\ JSONLoads(logfile) = PyList(appended)

\* C2: across one or more open/close cycles on one (initially new) path, the final
\* file parses as the array of all appended records of all cycles in append order.
C2_CyclesConcatenate ==
    (log0 = NoFile /\ cycles >= 1 /\ jsonlog.file = "closed") =>
        JSONLoads(logfile) = PyList(appended)

\* C3: a writer constructed on a new path with zero records appended (closed or
\* not) leaves the valid empty JSON array "[\n]\n".
C3_EmptyArrayAfterConstruction ==
    (FirstSessionOnNewPath /\ appended = <<>>) =>
        /\ logfile = <<"[">> \o close_str
        /\ JSONLoads(logfile) = PyList(<<>>)

\* ------------------------------------------------------------------------
\* Claims about MEGNetTrainer.train (specifications Spec and FairSpec)
\* ------------------------------------------------------------------------
\* epoch boundary: the writes of the epochs 1..epoch are done, the next is not started
AtBoundary == pc \in {"train", "close", "Finished"} /\ Len(val_hist) = epoch

\* the epochs at which the running minimum of h strictly decreases
RunningMinEpochs(h) == {e \in 1..Len(h) : \A j \in 1..(e - 1) : h[e] < h[j]}

\* the epochs at which the code's test val_loss < best_val_loss is true
SentinelMinEpochs(h) == {e \in RunningMinEpochs(h) : h[e] < Sentinel}

CheckpointEpochs == {f.data.epoch : f \in CheckPoints.files}

\* the "Epoch" value of a log record
RecordEpoch(obj) == obj[2][1][2][2]

\* the "val_loss" value of a log record
RecordValLoss(obj) == obj[2][3][2][2]

LoggedEpochs == {RecordEpoch(appended[i]) : i \in 1..Len(appended)}

\* C4: the epochs with a checkpoint file and a log record (one of each) are exactly
\* the epochs at which the running minimum of the validation losses strictly
\* decreases, epoch 1 always among them.
C4_CheckpointsAtRunningMinimum ==
    AtBoundary =>
        /\ CheckpointEpochs = RunningMinEpochs(val_hist)
        /\ LoggedEpochs = RunningMinEpochs(val_hist)
        /\ Cardinality(CheckPoints.files) = Cardinality(RunningMinEpochs(val_hist))
        /\ Len(appended) = Cardinality(RunningMinEpochs(val_hist))

\* C5: best_val_loss never increases from one step of train to the next, and it
\* changes only to a val_loss strictly below its previous value.
C5_BestValLossMonotone ==
    [][pc # "Initializing" =>
          /\ best_val_loss' <= best_val_loss
          /\ best_val_loss' # best_val_loss =>
                 (val_loss < best_val_loss /\ best_val_loss' = val_loss)]_vars

C5_Witness ==
    /\ pc = "close"
    /\ epoch = 3
    /\ val_hist[1] = 2 /\ val_hist[2] = 3 /\ val_hist[3] = 1
    /\ best_val_loss = 1

\* C6: after every completed epoch best-model.pt is the only file of BestModel and
\* holds the model state of an epoch with the lowest validation loss so far.
C6_BestModelIsLowestSoFar ==
    (AtBoundary /\ epoch >= 1) =>
        \E e \in 1..epoch :
            /\ \A j \in 1..epoch : val_hist[e] <= val_hist[j]
            /\ BestModel.files = {[name |-> BestModelName, data |-> [model |-> e * train_len]]}

BeforeEpoch1 == pc \in {"train", "close", "Finished"} /\ val_hist = <<>>

\* C7: before epoch 1 begins both directories exist and are empty, whatever they
\* held before, and the log file has the content it had (empty if it was created).
C7_DirsResetLogKept ==
    BeforeEpoch1 =>
        /\ BestModel = EmptyDir
        /\ CheckPoints = EmptyDir
        /\ logfile = (IF Exists(log0) THEN log0 ELSE <<>>)

C7_Witness ==
    /\ pc = "train"
    /\ epoch = 0
    /\ dirs0 = <<PriorBestModel, PriorCheckPoints>>
    /\ log0 = ValidLog
    /\ BestModel = EmptyDir /\ CheckPoints = EmptyDir
    /\ logfile = ValidLog

\* the elements of the log file found at the start of the run
PriorElements == IF Exists(log0) THEN JSONLoads(log0)[2] ELSE <<>>

\* C8: at every epoch boundary (log path new, or holding a valid array) nothing is
\* left in the buffer, the log file on disk is a valid JSON array holding the
\* session's records, checkpoint files and log records exist exactly for the
\* epochs that passed the improvement test, and best-model.pt is the model of the
\* latest of them.
C8_ConsistentAtEpochBoundary ==
    (AtBoundary /\ epoch >= 1 /\ log0 \in {NoFile, ValidLog}) =>
        /\ jsonlog.buffer = <<>>
        /\ JSONLoads(logfile) = PyList(PriorElements \o appended)
        /\ CheckpointEpochs = SentinelMinEpochs(val_hist)
        /\ LoggedEpochs = SentinelMinEpochs(val_hist)
        /\ \A e \in SentinelMinEpochs(val_hist) :
               (\A j \in SentinelMinEpochs(val_hist) : j <= e) =>
                   BestModel.files =
                       {[name |-> BestModelName, data |-> [model |-> e * train_len]]}

\* C9: the scheduler is stepped once per epoch, after validate_one_step and before
\* the improvement test, whether or not the epoch improves: it has e steps after e
\* epochs, and the checkpoint of epoch e holds the scheduler state after e steps.
C9_SchedulerOncePerEpoch ==
    /\ scheduler = (IF pc \in {"check", "dump_log", "save_best"} THEN epoch + 1 ELSE epoch)
    /\ pc = "sched" => Len(val_hist) = epoch + 1
    /\ \A f \in CheckPoints.files : f.data.scheduler_state_dict = f.data.epoch

C9_Witness ==
    /\ pc = "Finished"
    /\ epoch = 3
    /\ scheduler = 3
    /\ CheckpointEpochs = {1, 3}
    /\ \E f \in CheckPoints.files : f.data.epoch = 3 /\ f.data.scheduler_state_dict = 3

\* no collaborator fails: both dataloaders have batches (or no epoch is run)
NonFailing == num_epochs = 0 \/ (train_len > 0 /\ val_len > 0)

StateOrder ==
    /\ epoch' \in {epoch, epoch + 1}
    /\ <<TrainerState, TrainerState'>> \in
           {<<"Initializing", "EpochRunning">>, <<"Initializing", "Finished">>,
            <<"EpochRunning", "EpochRunning">>, <<"EpochRunning", "EpochEvaluated">>,
            <<"EpochEvaluated", "EpochEvaluated">>, <<"EpochEvaluated", "EpochRunning">>,
            <<"EpochEvaluated", "Finished">>, <<"Finished", "Finished">>}
    /\ (TrainerState = "Initializing" /\ TrainerState' = "Finished") => num_epochs = 0
    /\ (TrainerState = "EpochRunning" /\ TrainerState' = "EpochRunning") =>
           (pc = "train" /\ pc' = "validate")
    /\ (TrainerState = "EpochEvaluated" /\ TrainerState' = "EpochRunning") =>
           (epoch' = epoch + 1 /\ epoch' < num_epochs /\ pc' = "train")
    /\ (TrainerState # "Finished" /\ TrainerState' = "Finished") => epoch' = num_epochs
    /\ (TrainerState = "Finished" /\ TrainerState' = "Finished") =>
           (jsonlog.file = "open" /\ jsonlog'.file = "closed")

Completed ==
    /\ pc = "Finished"
    /\ epoch = num_epochs
    /\ Len(val_hist) = num_epochs
    /\ model = num_epochs * train_len
    /\ jsonlog.file = "closed"

\* C10: with non-failing collaborators train goes Initializing, then (EpochRunning,
\* EpochEvaluated) num_epochs times with the epochs in order, never leaves the loop
\* early, and reaches Finished with the JSON writer closed.
C10_RunsAllEpochsThenFinishes ==
    /\ [][NonFailing => StateOrder]_vars
    /\ NonFailing => <>Completed

C10_Witness ==
    /\ Completed
    /\ num_epochs = 3
    /\ val_hist[1] = 1 /\ val_hist[2] = 2 /\ val_hist[3] = 3

\* ------------------------------------------------------------------------
\* Claims about train_one_step and validate_one_step (specification SpecStep)
\* ------------------------------------------------------------------------
\* C11: over a dataloader of K >= 1 batches both step functions return the sum of
\* the per-batch losses divided by K, the dataloader's length.
C11_AverageIsSumOverLen ==
    step.pc = "returned" =>
        /\ Len(step.loader) >= 1
        /\ Len(step.losses) = Len(step.loader)
        /\ step.result = RDiv(RSum(step.losses), FromInt(Len(step.loader)))

C11_Witness ==
    /\ step.pc = "returned"
    /\ step.fn = "validate"
    /\ Len(step.loader) = 2
    /\ step.losses[1] # step.losses[2]
    /\ step.losses[1] # FromInt(0)
    /\ step.result = RDiv(RAdd(step.losses[1], step.losses[2]), FromInt(2))

\* the loss of the current batch has just been computed
LossComputed == step.pc \in {"backward", "accumulate"} /\ step.calls # <<>>

CurrentLabel == step.loader[step.i + 1]

CurrentTrainLoss == TrainLoss(step.lossfn, step.pred, CurrentLabel, step.mean, step.std)

CurrentValLoss == ValLoss(step.lossfn, step.pred, CurrentLabel, step.mean, step.std)

\* C12 (as claimed): for the same prediction and label the validation loss and the
\* training loss differ whenever std # 1 or mean # 0.
C12_LossesDifferWhenNormalised ==
    (LossComputed /\ (step.std # 1 \/ step.mean # 0)) =>
        CurrentTrainLoss # CurrentValLoss

\* C12 (amended): train_one_step passes (pred, (label - mean) / std) and
\* validate_one_step passes (mean + pred * std, label); the validation loss is std
\* times (L1) or std * std times (MSE) the training loss, so the two differ exactly
\* when std # 1 and the training loss is not 0, whatever mean is.
C12_ArgsAndScaledLoss ==
    LossComputed =>
        /\ step.args =
               (IF step.fn = "train"
                THEN <<FromInt(step.pred), Rat(CurrentLabel - step.mean, step.std)>>
                ELSE <<FromInt(step.mean + step.pred * step.std), FromInt(CurrentLabel)>>)
        /\ step.loss = (IF step.fn = "train" THEN CurrentTrainLoss ELSE CurrentValLoss)
        /\ CurrentValLoss =
               RMul(FromInt(IF step.lossfn = "L1" THEN step.std ELSE step.std * step.std),
                    CurrentTrainLoss)
        /\ (CurrentValLoss # CurrentTrainLoss) <=>
               (step.std # 1 /\ CurrentTrainLoss # FromInt(0))

C12_Witness ==
    /\ LossComputed
    /\ step.fn = "train"
    /\ step.std = 2 /\ step.mean = 1
    /\ step.args = <<FromInt(0), FromInt(1)>>
    /\ CurrentTrainLoss = FromInt(1)
    /\ CurrentValLoss = FromInt(2)

\* ------------------------------------------------------------------------
\* Claims about failures of the trainer (specification Spec)
\* ------------------------------------------------------------------------
NothingWritten ==
    /\ CheckPoints.files = {}
    /\ BestModel.files = {}
    /\ appended = <<>>
    /\ logfile = (IF Exists(log0) THEN log0 ELSE <<>>)

EmptyDataloader == train_len = 0 \/ val_len = 0

\* C13: with a dataloader of zero batches the step function raises instead of
\* returning a loss; train does not catch it: the run stops in its first epoch, at the
\* failing call, and no checkpoint, log record or best-model file has been written.
C13_EmptyDataloaderAborts ==
    /\ pc = "Aborted" => EmptyDataloader
    /\ (EmptyDataloader /\ pc # "Initializing" /\ num_epochs >= 1) =>
           /\ pc \in {"train", "validate", "Aborted"}
           /\ pc = "validate" => train_len # 0
           /\ epoch = 0
           /\ scheduler = 0
           /\ best_val_loss = Sentinel
           /\ NothingWritten

C13_Witness ==
    /\ pc = "Aborted"
    /\ num_epochs = MaxEpochs
    /\ train_len = 2 /\ val_len = 0
    /\ model = 2
    /\ dirs0 = <<PriorBestModel, PriorCheckPoints>>
    /\ NothingWritten

\* ------------------------------------------------------------------------
\* Claims about resuming an existing file (specification SpecWriter)
\* ------------------------------------------------------------------------
LastThree(s) == SubSeq(s, Len(s) - 2, Len(s))

EndsWithCloseStr(s) == Len(s) >= 3 /\ LastThree(s) = close_str

\* the last three characters are one closing bracket and two whitespace characters
BracketAndTwoWs(s) ==
    /\ Len(s) >= 3
    /\ Cardinality({i \in 1..3 : LastThree(s)[i] = "]"}) = 1
    /\ Cardinality({i \in 1..3 : IsWs(LastThree(s)[i])}) = 2

AllWs(s) == \A i \in 1..Len(s) : IsWs(s[i])

\* a session on a file that existed, after its first dump
ResumedAndDumped == Exists(log0) /\ appended # <<>>

\* the file parses as the array of the prior elements followed by the records
ParsesAsPriorThenAppended ==
    /\ IsJSONArray(log0)
    /\ JSONLoads(logfile) = PyList(JSONLoads(log0)[2] \o appended)

\* C14 (as claimed): on an existing file whose tail is not "\n]\n", dump raises no
\* error and the file is corrupted: it does not parse as the prior elements followed
\* by the appended record.
C14_MalformedTailCorrupts ==
    (ResumedAndDumped /\ ~EndsWithCloseStr(log0)) => ~ParsesAsPriorThenAppended

\* C14 (amended): on an existing file whose tail is not "\n]\n", dump raises no error
\* and overwrites the last three characters (the whole file if it is shorter). The
\* result is corrupted when the file is shorter than three characters or is a valid
\* array followed by three or more whitespace characters; it is not corrupted when
\* the three characters are the closing bracket of a non-empty valid array and two
\* whitespace characters: then it parses as the prior elements followed by the
\* records.
C14_MalformedTailOverwritten ==
    (ResumedAndDumped /\ ~EndsWithCloseStr(log0)) =>
        /\ Len(appended) = 1 =>
               logfile = SubSeq(log0, 1, Max(Len(log0) - 3, 0))
                             \o DumpText(",", JSONDumps(appended[1]))
        /\ (Len(log0) < 3 \/ (IsJSONArray(log0) /\ AllWs(LastThree(log0)))) =>
               JSONLoads(logfile) = Invalid
        /\ (IsJSONArray(log0) /\ JSONLoads(log0)[2] # <<>> /\ BracketAndTwoWs(log0)) =>
               ParsesAsPriorThenAppended

C14_Witness ==
    /\ log0 = <<"[", "\n", "7", " ", "]", "\n">>
    /\ appended = <<PyInt(7)>>
    /\ logfile = <<"[", "\n", "7", ",">> \o indent \o <<"7">> \o close_str
    /\ JSONLoads(logfile) = PyList(<<PyInt(7), PyInt(7)>>)

\* C15: on an existing file that is a valid JSON array ending with "\n]\n", after
\* a dump the file parses as the array of the prior elements followed by the dumped
\* records, for every such prior array, the empty one included.
C15_ValidArrayResumed ==
    (ResumedAndDumped /\ IsJSONArray(log0) /\ EndsWithCloseStr(log0)) =>
        ParsesAsPriorThenAppended

\* a step that is one call of dump
IsDump == appended' # appended

\* C16: dump puts the cursor at max(L - 3, 0), L the file length before the call,
\* and writes only from there: every character before that offset is unchanged, the
\* file grows, and the separator is "," afterwards and stays "," for later calls.
C16_DumpKeepsPrefix ==
    [][/\ IsDump =>
              LET L == Len(logfile)
                  p == IF L - 3 > 0 THEN L - 3 ELSE 0
                  r == appended'[Len(appended')]
              IN /\ logfile' = SubSeq(logfile, 1, p)
                                   \o DumpText(jsonlog.delimeter, JSONDumps(r))
                 /\ SubSeq(logfile', 1, p) = SubSeq(logfile, 1, p)
                 /\ Len(logfile') > L
                 /\ jsonlog'.delimeter = ","
       /\ jsonlog.delimeter = "," => jsonlog'.delimeter = ","]_vars

C16_Witness ==
    /\ log0 = ValidLog
    /\ Len(appended) = 2
    /\ jsonlog.delimeter = ","
    /\ logfile = SubSeq(log0, 1, Len(log0) - 3) \o <<",">> \o JoinRecords(appended) \o close_str

\* ------------------------------------------------------------------------
\* Claims about the order of calls in train_one_step (specification SpecStep)
\* ------------------------------------------------------------------------
\* the calls made for one batch, lines 36-48
TrainCycle == <<"zero_grad", "forward", "loss", "backward", "step">>

CallCount(name) == Cardinality({k \in 1..Len(step.calls) : step.calls[k] = name})

StepDone == step.pc \in {"returned", "raised"}

\* C17: train_one_step over K batches takes the batches in dataloader order and for
\* each one clears the gradients, runs the forward pass, computes the loss,
\* backpropagates and takes one optimizer step, in this order: zero_grad and step
\* alternate starting with zero_grad, each is called K times, and the parameters are
\* changed once per batch.
C17_TrainCallOrder ==
    step.fn = "train" =>
        /\ \A k \in 1..Len(step.calls) :
               step.calls[k] = TrainCycle[((k - 1) % Len(TrainCycle)) + 1]
        /\ step.params = CallCount("step")
        /\ Len(step.seen) = CallCount("forward")
        /\ step.seen = SubSeq(step.loader, 1, Len(step.seen))
        /\ StepDone =>
               /\ Len(step.calls) = Len(TrainCycle) * Len(step.loader)
               /\ CallCount("zero_grad") = Len(step.loader)
               /\ CallCount("step") = Len(step.loader)
               /\ step.params = Len(step.loader)
               /\ step.seen = step.loader

C17_Witness ==
    /\ step.fn = "train"
    /\ step.pc = "returned"
    /\ step.loader = <<3, 1>>
    /\ step.seen = <<3, 1>>
    /\ step.calls = TrainCycle \o TrainCycle
    /\ step.params = 2

\* ------------------------------------------------------------------------
\* Claims about the records of one training session (specification Spec)
\* ------------------------------------------------------------------------
\* what precedes this session's records in the file
LogHead ==
    IF ~Exists(log0) THEN <<"[">>
    ELSE SubSeq(log0, 1, Max(Len(log0) - Len(close_str), 0)) \o <<",">>

RecordsOrdered ==
    /\ \A i \in 1..Len(appended) :
           /\ RecordEpoch(appended[i]) \in 1..num_epochs
           /\ RecordValLoss(appended[i]) < Sentinel
    /\ \A i, j \in 1..Len(appended) :
           i < j => /\ RecordEpoch(appended[i]) < RecordEpoch(appended[j])
                    /\ RecordValLoss(appended[i]) > RecordValLoss(appended[j])

RecordsInFile ==
    appended # <<>> => logfile = LogHead \o JoinRecords(appended) \o close_str

RecordsKept ==
    /\ Len(appended') >= Len(appended)
    /\ SubSeq(appended', 1, Len(appended)) = appended
    /\ appended # <<>> =>
           LET n == Len(logfile) - Len(close_str)
           IN SubSeq(logfile', 1, n) = SubSeq(logfile, 1, n)

\* C18: within one session of train the records appended to the log have strictly
\* increasing Epoch values in 1..num_epochs and strictly decreasing val_loss values,
\* every logged val_loss is below the sentinel 1000.0, and a record, once appended,
\* is never modified: it stays in the file as it was written.
C18_RecordsOrderedAndKept ==
    /\ [](RecordsOrdered /\ RecordsInFile)
    /\ [][RecordsKept]_vars

C18_Witness ==
    /\ pc = "Finished"
    /\ Len(appended) = 2
    /\ RecordEpoch(appended[1]) = 1 /\ RecordValLoss(appended[1]) = 2
    /\ RecordEpoch(appended[2]) = 3 /\ RecordValLoss(appended[2]) = 1
    /\ val_hist = <<2, 2, 1>>
    /\ log0 = ValidLog

\* the epoch of the newest record of this session
LatestLoggedEpoch == RecordEpoch(appended[Len(appended)])

\* the epochs whose model is the one stored in best-model.pt
BestModelEpochs ==
    {c.data.epoch : c \in {c \in CheckPoints.files :
                               \E f \in BestModel.files : f.data.model = c.data.model}}

\* C19: an improving epoch writes the checkpoint file, then the log record, then
\* best-model.pt; so in every state of a session after its directories were reset,
\* between two of these writes included, every epoch with a log record has a
\* checkpoint file, and the model in best-model.pt is that of a logged epoch not
\* later than the newest log record.
C19_CheckpointThenLogThenBestModel ==
    pc # "Initializing" =>
        /\ LoggedEpochs \subseteq CheckpointEpochs
        /\ pc = "dump_log" => CheckpointEpochs = LoggedEpochs \cup {epoch + 1}
        /\ BestModel.files # {} =>
               /\ appended # <<>>
               /\ BestModelEpochs # {}
               /\ BestModelEpochs \subseteq LoggedEpochs
               /\ \A e \in BestModelEpochs : e <= LatestLoggedEpoch
        /\ (appended # <<>> /\ pc # "save_best") => BestModelEpochs = {LatestLoggedEpoch}
        /\ (pc = "save_best" /\ BestModel.files # {}) =>
               \A e \in BestModelEpochs : e < LatestLoggedEpoch

C19_Witness ==
    /\ pc = "save_best"
    /\ Len(appended) = 2
    /\ LatestLoggedEpoch = 3
    /\ CheckpointEpochs = {1, 3}
    /\ BestModelEpochs = {1}

====
